---- MODULE Spec2Model ----
(***************************************************************************)
(* Model of the EnumCompanion derive macro (enum_companion_derive) and of  *)
(* the code it generates for a struct: the field enum, the value enum,     *)
(* FromStr for the field enum, value / update / fields / as_values, the    *)
(* EnumCompanionTrait binding and the TryFrom conversions.                 *)
(*                                                                         *)
(* Identifiers and labels are sequences of one-character strings, so that  *)
(* to_pascal_case is computed character by character.  Type expressions    *)
(* are trees, so that the generic visitor and the token rendering used as  *)
(* grouping key are computed on the syntax of the type.                    *)
(***************************************************************************)
EXTENDS Integers, Sequences, FiniteSets, TLC

VARIABLES fields, generics, opts, artifact, self, ret

vars == <<fields, generics, opts, artifact, self, ret>>

\* ------------------------------------------------------------------ bounds
MaxFields == 2

MaxVal == 1

MaxIdentLen == 3

\* ----------------------------------------------------------- small helpers
Range(s) == {s[i] : i \in DOMAIN s}

Last(s) == s[Len(s)]

RECURSIVE Concat(_)
Concat(ss) == IF ss = <<>> THEN <<>> ELSE Head(ss) \o Concat(Tail(ss))

\* Option<String>: <<>> is None, <<s>> is Some(s)
None == <<>>

Some(x) == <<x>>

Ok(x) == [tag |-> "Ok", val |-> x]

Err(x) == [tag |-> "Err", val |-> x]

\* ------------------------------------------------------------ to_pascal_case
\* char::to_uppercase on the characters of the identifier alphabet
ToUpper(c) == CASE c = "a" -> "A" [] c = "b" -> "B" [] c = "c" -> "C" [] OTHER -> c

\* str::split('_'): the segments between underscores, empty ones included
RECURSIVE SplitAcc(_, _, _, _)
SplitAcc(s, i, cur, acc) ==
    IF i > Len(s) THEN Append(acc, cur)
    ELSE IF s[i] = "_" THEN SplitAcc(s, i + 1, <<>>, Append(acc, cur))
    ELSE SplitAcc(s, i + 1, Append(cur, s[i]), acc)

Split(s) == SplitAcc(s, 1, <<>>, <<>>)

\* the whole segment upper-cased
CapitalizeMutant(word) == [k \in DOMAIN word |-> ToUpper(word[k])]

Capitalize(word) == IF word = <<>> THEN <<>> ELSE <<ToUpper(Head(word))>> \o Tail(word)

to_pascal_case(s) == Concat([k \in DOMAIN Split(s) |-> Capitalize(Split(s)[k])])

\* ------------------------------------------------------------- type syntax
\* syn::Type: a path type (optional qself, segments with type arguments) or
\* a composite (reference, tuple, ...) holding element types
Seg(id, args) == [ident |-> id, args |-> args]

PathTy(qself, segs) == [kind |-> "path", qself |-> qself, segments |-> segs, elems |-> <<>>]

RefTy(t) == [kind |-> "ref", qself |-> <<>>, segments |-> <<>>, elems |-> <<t>>]

Simple(id) == PathTy(<<>>, <<Seg(id, <<>>)>>)

TyU32 == Simple("u32")

TyString == Simple("String")

TyT == Simple("T")

TyVecRefT == PathTy(<<>>, <<Seg("Vec", <<RefTy(TyT)>>)>>)

TyTItem == PathTy(<<>>, <<Seg("T", <<>>), Seg("Item", <<>>)>>)

TyQSelfItem == PathTy(<<TyT>>, <<Seg("Tr", <<>>), Seg("Item", <<>>)>>)

\* quote!(#ty).to_string(): the token rendering of a type
RECURSIVE Tokens(_)
RECURSIVE SegTokens(_)
RECURSIVE ArgTokens(_)
ArgTokens(args) ==
    IF args = <<>> THEN <<>>
    ELSE Tokens(Head(args)) \o (IF Len(args) > 1 THEN <<",">> ELSE <<>>) \o ArgTokens(Tail(args))

SegTokens(segs) ==
    IF segs = <<>> THEN <<>>
    ELSE <<Head(segs).ident>>
         \o (IF Head(segs).args = <<>> THEN <<>> ELSE <<"<">> \o ArgTokens(Head(segs).args) \o <<">">>)
         \o (IF Len(segs) > 1 THEN <<"::">> ELSE <<>>)
         \o SegTokens(Tail(segs))

Tokens(ty) ==
    IF ty.kind = "path"
    THEN IF ty.qself = <<>> THEN SegTokens(ty.segments)
         ELSE <<"<">> \o Tokens(ty.qself[1]) \o <<"as">>
              \o SegTokens(SubSeq(ty.segments, 1, Len(ty.segments) - 1))
              \o <<">", "::">> \o SegTokens(<<Last(ty.segments)>>)
    ELSE <<"&">> \o ArgTokens(ty.elems)

\* ---------------------------------------------------------- generic visitor
RECURSIVE visit_type(_, _)
RECURSIVE visit_type_path(_, _)
\* syn::visit::visit_type_path: the qself type, then every segment's arguments
default_visit_type_path(i, generic_params) ==
    \/ (i.qself # <<>> /\ visit_type(i.qself[1], generic_params))
    \/ \E k \in DOMAIN i.segments :
          \E a \in DOMAIN i.segments[k].args :
             visit_type(i.segments[k].args[a], generic_params)

visit_type_path(i, generic_params) ==
    \/ (i.qself = <<>> /\ i.segments # <<>> /\ Last(i.segments).ident \in generic_params)
    \/ default_visit_type_path(i, generic_params)

visit_type(ty, generic_params) ==
    IF ty.kind = "path" THEN visit_type_path(ty, generic_params)
    ELSE \E e \in DOMAIN ty.elems : visit_type(ty.elems[e], generic_params)

\* flags every type as soon as the struct has a type parameter
type_contains_genericMutant(ty, generic_params) == generic_params # {}

type_contains_generic(ty, generic_params) == visit_type(ty, generic_params)

\* ------------------------------------------------- the derive: field loop
\* A field of the struct (FieldAttrs): ident, ty, rename, skip
FieldAttrs(ident, ty, rename, skip) == [ident |-> ident, ty |-> ty, rename |-> rename, skip |-> skip]

NotSkipped(field) == ~field.skip

\* the loop without its `continue`
KeptMutant(fs) == fs

\* the fields the loop does not `continue` on, in declaration order
Kept(fs) == SelectSeq(fs, NotSkipped)

variant_name_str(field) ==
    IF field.rename # None THEN field.rename[1] ELSE to_pascal_case(field.ident)

patterns(field) ==
    IF variant_name_str(field) # field.ident
    THEN <<field.ident, variant_name_str(field)>>
    ELSE <<field.ident>>

field_idents(fs) == [k \in DOMAIN Kept(fs) |-> Kept(fs)[k].ident]

field_types(fs) == [k \in DOMAIN Kept(fs) |-> Kept(fs)[k].ty]

field_variants(fs) == [k \in DOMAIN Kept(fs) |-> variant_name_str(Kept(fs)[k])]

from_str_arms(fs) ==
    [k \in DOMAIN Kept(fs) |->
        [patterns |-> patterns(Kept(fs)[k]), variant |-> variant_name_str(Kept(fs)[k])]]

\* ------------------------------------------------ the derive: trait binding
default_value_fn == "value"

default_update_fn == "update"

default_fields_fn == "fields"

\* the test of fields_fn forgotten
trait_implMutant(o) == o.value_fn = "value" /\ o.update_fn = "update"

trait_impl(o) ==
    o.value_fn = "value" /\ o.update_fn = "update" /\ o.fields_fn = "fields"

\* --------------------------------------------- the derive: type conversions
\* every variant pushed into every entry
unique_typesMutant(fs) ==
    LET tys == field_types(fs)
    IN [key \in {Tokens(tys[k]) : k \in DOMAIN tys} |->
           [ty |-> tys[CHOOSE k \in DOMAIN tys : Tokens(tys[k]) = key], variants |-> field_variants(fs)]]

\* unique_types: token string of the type -> (first type with it, variants)
unique_types(fs) ==
    LET tys == field_types(fs)
        vs  == field_variants(fs)
        idx(key) == SelectSeq([k \in DOMAIN tys |-> k], LAMBDA k : Tokens(tys[k]) = key)
    IN [key \in {Tokens(tys[k]) : k \in DOMAIN tys} |->
           [ty |-> tys[Head(idx(key))],
            variants |-> [j \in DOMAIN idx(key) |-> vs[idx(key)[j]]]]]

\* the names of the type parameters among the generic parameters
generic_param_idents(gens) == {p.ident : p \in {q \in gens : q.kind = "type"}}

\* the groups a TryFrom<Value> for #ty is emitted for, with the arms' variants
try_from_impls(fs, gens) ==
    LET ut == unique_types(fs)
        keys == {key \in DOMAIN ut : ~type_contains_generic(ut[key].ty, generic_param_idents(gens))}
    IN [key \in keys |-> ut[key].variants]

\* only the first variant of a group gets an arm
try_into_implsMutant(fs, gens) ==
    LET ut == unique_types(fs)
        keys == {key \in DOMAIN ut : ~type_contains_generic(ut[key].ty, generic_param_idents(gens))}
    IN [key \in keys |-> <<Head(ut[key].variants)>>]

\* the groups a TryFrom<(Field, #ty)> for Value is emitted for, with the arms
try_into_impls(fs, gens) ==
    LET ut == unique_types(fs)
        keys == {key \in DOMAIN ut : ~type_contains_generic(ut[key].ty, generic_param_idents(gens))}
    IN [key \in keys |-> ut[key].variants]

\* ------------------------------------------------------ the derive: output
enum_companion_derive(fs, gens, o) ==
    [field_enum     |-> field_variants(fs),
     FIELDS         |-> field_variants(fs),
     value_enum     |-> [k \in DOMAIN field_variants(fs) |->
                            [variant |-> field_variants(fs)[k], ty |-> field_types(fs)[k]]],
     from_str_arms  |-> from_str_arms(fs),
     fields_fn_name |-> o.fields_fn,
     value_fn_name  |-> o.value_fn,
     update_fn_name |-> o.update_fn,
     value_arms     |-> [k \in DOMAIN field_idents(fs) |->
                            [variant |-> field_variants(fs)[k], ident |-> field_idents(fs)[k]]],
     update_arms    |-> [k \in DOMAIN field_idents(fs) |->
                            [variant |-> field_variants(fs)[k], ident |-> field_idents(fs)[k]]],
     trait_impl     |-> trait_impl(o),
     try_from_impls |-> try_from_impls(fs, gens),
     try_into_impls |-> try_into_impls(fs, gens)]

\* ------------------------------------------------------- the generated code
\* index of the first arm of a match that accepts the scrutinee (0: none)
FirstArm(arms, Accepts(_)) ==
    IF \E k \in DOMAIN arms : Accepts(arms[k])
    THEN CHOOSE k \in DOMAIN arms :
            Accepts(arms[k]) /\ \A j \in DOMAIN arms : Accepts(arms[j]) => k <= j
    ELSE 0

InvalidFieldName(s) == <<"Invalid field name: ">> \o s

from_str(art, s) ==
    LET k == FirstArm(art.from_str_arms, LAMBDA arm : s \in Range(arm.patterns))
    IN IF k # 0 THEN Ok(art.from_str_arms[k].variant) ELSE Err(InvalidFieldName(s))

ValueVariant(variant, payload) == [variant |-> variant, payload |-> payload]

\* the arms' idents zipped one off: every arm reads the last field
valueMutant(art, rec, field) ==
    LET k == FirstArm(art.value_arms, LAMBDA arm : arm.variant = field)
    IN ValueVariant(art.value_arms[k].variant, rec[art.value_arms[Len(art.value_arms)].ident])

value(art, rec, field) ==
    LET k == FirstArm(art.value_arms, LAMBDA arm : arm.variant = field)
    IN ValueVariant(art.value_arms[k].variant, rec[art.value_arms[k].ident])

\* every arm assigns to the first field
updateMutant(art, rec, v) == [rec EXCEPT ![art.update_arms[1].ident] = v.payload]

\* the arms' idents zipped one off: every arm assigns to the last field
updateLastMutant(art, rec, v) ==
    [rec EXCEPT ![art.update_arms[Len(art.update_arms)].ident] = v.payload]

update(art, rec, v) ==
    LET k == FirstArm(art.update_arms, LAMBDA arm : arm.variant = v.variant)
    IN [rec EXCEPT ![art.update_arms[k].ident] = v.payload]

\* the variants in reverse order
fields_fnMutant(art) == [k \in DOMAIN art.FIELDS |-> art.FIELDS[Len(art.FIELDS) + 1 - k]]

fields_fn(art) == art.FIELDS

\* the closure ignores its field and reads the first one
as_valuesMutant(art, rec) == [k \in DOMAIN fields_fn(art) |-> value(art, rec, fields_fn(art)[1])]

as_values(art, rec) == [k \in DOMAIN fields_fn(art) |-> value(art, rec, fields_fn(art)[k])]

\* TryFrom<Value> for the type with token string key
try_from_value(art, key, v) ==
    IF v.variant \in Range(art.try_from_impls[key]) THEN Ok(v.payload) ELSE Err(v)

\* TryFrom<(Field, ty)> for Value, ty the type with token string key
try_from_tuple(art, key, field, raw) ==
    IF field \in Range(art.try_into_impls[key]) THEN Ok(ValueVariant(field, raw)) ELSE Err(field)

\* ------------------------------------------------------------ input pools
\* the identifier of the i-th declared field
IdentAt == << <<"a">>, <<"b">>, <<"a", "_", "b">>, <<"c">> >>

NFields == IF MaxFields < Len(IdentAt) THEN MaxFields ELSE Len(IdentAt)

TypeParam(id) == [kind |-> "type", ident |-> id]

LifetimeParam(id) == [kind |-> "lifetime", ident |-> id]

DefaultOpts ==
    [value_fn |-> default_value_fn, update_fn |-> default_update_fn, fields_fn |-> default_fields_fn]

\* every choice of the three function names among the default and a custom one
AllOpts ==
    [value_fn : {default_value_fn, "get_field"},
     update_fn : {default_update_fn, "set_field"},
     fields_fn : {default_fields_fn, "get_all_fields"}]

\* two variants of one enum cannot share a name, and the match in from_str
\* needs at least one arm before its `_` arm: other structs do not compile
Compiles(fs) ==
    /\ Kept(fs) # <<>>
    /\ \A i, j \in DOMAIN Kept(fs) :
          i # j => variant_name_str(Kept(fs)[i]) # variant_name_str(Kept(fs)[j])

Structs(renames, types, skips) ==
    {fs \in UNION {
        {[i \in 1..n |-> FieldAttrs(IdentAt[i], c[i][2], c[i][1], c[i][3])] :
            c \in [1..n -> renames \X types \X skips]} : n \in 1..NFields} :
        Compiles(fs)}

\* Ident::new on the label panics unless it is an identifier
ValidIdent(label) == label # <<>>

\* the characters of the field identifiers of the label structs
Alphabet == {"a", "B", "_"}

\* field identifiers: the strings over the alphabet that are not underscores only
IdentPool ==
    {id \in UNION {[1..n -> Alphabet] : n \in 1..MaxIdentLen} :
        \E k \in DOMAIN id : id[k] # "_"}

\* a first field with any identifier and maybe a rename, then maybe a field c
LabelStructs ==
    {fs \in UNION {
        {<<FieldAttrs(id, TyU32, rn, FALSE)>> \o rest :
            id \in IdentPool, rn \in {None, Some(<<"a", "_", "a">>)}} :
        rest \in {<<>>} \cup {<<FieldAttrs(<<"c">>, TyString, None, sk)>> : sk \in BOOLEAN}} :
        Compiles(fs) /\ \A k \in DOMAIN Kept(fs) : ValidIdent(variant_name_str(Kept(fs)[k]))}

\* the strings handed to from_str
Names ==
    {IdentAt[i] : i \in 1..NFields} \cup {to_pascal_case(IdentAt[i]) : i \in 1..NFields}
        \cup {<<"X">>, <<"z">>}

Payloads == 0..MaxVal

FieldValues == {artifact.field_enum[k] : k \in DOMAIN artifact.field_enum}

ValueValues == {ValueVariant(f, x) : f \in FieldValues, x \in Payloads}

\* the declared type's token string of the field behind a variant
KeyOf(f) ==
    Tokens(artifact.value_enum[CHOOSE k \in DOMAIN artifact.value_enum :
                                   artifact.value_enum[k].variant = f].ty)

Call(op, arg, res) == [op |-> op, arg |-> arg, res |-> res]

\* ------------------------------------------------------------------- Init
InitWith(renames, types, skips, genericsPool, optsPool) ==
    /\ fields \in Structs(renames, types, skips)
    /\ generics \in genericsPool
    /\ opts \in optsPool
    /\ artifact = enum_companion_derive(fields, generics, opts)
    /\ self \in [{fields[i].ident : i \in DOMAIN fields} -> Payloads]
    /\ ret = Call("new", <<>>, <<>>)

\* accessors: renames, two types, skips
Init == InitWith({None, Some(<<"X">>)}, {TyU32, TyString}, BOOLEAN, {{}}, {DefaultOpts})

\* name resolution: renames that may equal another field's identifier
InitNames ==
    InitWith({None, Some(<<"a">>), Some(<<"b">>), Some(<<"X">>)}, {TyU32}, BOOLEAN, {{}}, {DefaultOpts})

\* conversions: type expressions with and without the type parameter T
InitConv ==
    InitWith({None}, {TyU32, TyString, TyT, TyVecRefT, TyTItem, TyQSelfItem},
             {FALSE}, {{}, {LifetimeParam("a"), TypeParam("T")}}, {DefaultOpts})

\* trait binding: every choice of function names
InitBind == InitWith({None}, {TyU32}, {FALSE}, {{}}, AllOpts)

\* labels: identifiers with underscores anywhere and upper-case characters
InitLabel ==
    /\ fields \in LabelStructs
    /\ generics = {}
    /\ opts = DefaultOpts
    /\ artifact = enum_companion_derive(fields, generics, opts)
    /\ self \in [{fields[i].ident : i \in DOMAIN fields} -> Payloads]
    /\ ret = Call("new", <<>>, <<>>)

\* ---------------------------------------------------------------- actions
FromStr(s) ==
    /\ ret' = Call("from_str", s, from_str(artifact, s))
    /\ UNCHANGED <<fields, generics, opts, artifact, self>>

Value(f) ==
    /\ ret' = Call("value", f, value(artifact, self, f))
    /\ UNCHANGED <<fields, generics, opts, artifact, self>>

Update(v) ==
    /\ self' = update(artifact, self, v)
    /\ ret' = Call("update", v, <<>>)
    /\ UNCHANGED <<fields, generics, opts, artifact>>

Fields ==
    /\ ret' = Call("fields", <<>>, fields_fn(artifact))
    /\ UNCHANGED <<fields, generics, opts, artifact, self>>

AsValues ==
    /\ ret' = Call("as_values", <<>>, as_values(artifact, self))
    /\ UNCHANGED <<fields, generics, opts, artifact, self>>

\* update(value(f))
RoundTrip(f) ==
    /\ self' = update(artifact, self, value(artifact, self, f))
    /\ ret' = Call("round_trip", f, <<>>)
    /\ UNCHANGED <<fields, generics, opts, artifact>>

\* EnumCompanionTrait methods, present when the binding was emitted
TraitValue(f) ==
    /\ artifact.trait_impl
    /\ ret' = Call("trait_value", f, value(artifact, self, f))
    /\ UNCHANGED <<fields, generics, opts, artifact, self>>

TraitUpdate(v) ==
    /\ artifact.trait_impl
    /\ self' = update(artifact, self, v)
    /\ ret' = Call("trait_update", v, <<>>)
    /\ UNCHANGED <<fields, generics, opts, artifact>>

TraitFields ==
    /\ artifact.trait_impl
    /\ ret' = Call("trait_fields", <<>>, artifact.FIELDS)
    /\ UNCHANGED <<fields, generics, opts, artifact, self>>

TraitAsValues ==
    /\ artifact.trait_impl
    /\ ret' = Call("trait_as_values", <<>>, as_values(artifact, self))
    /\ UNCHANGED <<fields, generics, opts, artifact, self>>

\* value.try_into() for the type with token string key
TryFromValue(key, v) ==
    /\ key \in DOMAIN artifact.try_from_impls
    /\ ret' = Call("try_from_value", <<key, v>>, try_from_value(artifact, key, v))
    /\ UNCHANGED <<fields, generics, opts, artifact, self>>

\* (field, raw).try_into() for a raw value of the type with token string key
TryFromTuple(key, f, raw) ==
    /\ key \in DOMAIN artifact.try_into_impls
    /\ ret' = Call("try_from_tuple", <<key, f, raw>>, try_from_tuple(artifact, key, f, raw))
    /\ UNCHANGED <<fields, generics, opts, artifact, self>>

\* value(f) to the raw type of f, and (f, raw) back to a value
ConvRoundTrip(f) ==
    /\ KeyOf(f) \in DOMAIN artifact.try_from_impls
    /\ KeyOf(f) \in DOMAIN artifact.try_into_impls
    /\ LET r1 == try_from_value(artifact, KeyOf(f), value(artifact, self, f))
       IN ret' = Call("conv_round_trip", f,
                      IF r1.tag = "Ok"
                      THEN <<r1, try_from_tuple(artifact, KeyOf(f), f, r1.val)>>
                      ELSE <<r1>>)
    /\ UNCHANGED <<fields, generics, opts, artifact, self>>

Next ==
    \/ \E s \in Names : FromStr(s)
    \/ \E f \in FieldValues : Value(f)
    \/ \E v \in ValueValues : Update(v)
    \/ Fields
    \/ AsValues
    \/ \E f \in FieldValues : RoundTrip(f)
    \/ \E f \in FieldValues : TraitValue(f)
    \/ \E v \in ValueValues : TraitUpdate(v)
    \/ TraitFields
    \/ TraitAsValues
    \/ \E key \in DOMAIN artifact.try_from_impls : \E v \in ValueValues : TryFromValue(key, v)
    \/ \E key \in DOMAIN artifact.try_into_impls :
          \E f \in FieldValues : \E raw \in Payloads : TryFromTuple(key, f, raw)
    \/ \E f \in FieldValues : ConvRoundTrip(f)

Spec == Init /\ [][Next]_vars

SpecNames == InitNames /\ [][Next]_vars

SpecConv == InitConv /\ [][Next]_vars

SpecBind == InitBind /\ [][Next]_vars

SpecLabel == InitLabel /\ [][Next]_vars

\* ================================================================ claims
\* C1 (name resolution completeness): from_str of a string that is the raw
\* identifier or the label of a non-skipped field yields that field's own
\* variant, for every such field; from_str of any other string fails with
\* the error carrying the string.
C1_NameResolution ==
    ret.op = "from_str" =>
        LET s == ret.arg
            owners == {i \in DOMAIN fields :
                          /\ ~fields[i].skip
                          /\ (s = fields[i].ident \/ s = variant_name_str(fields[i]))}
        IN IF owners = {}
           THEN ret.res = Err(InvalidFieldName(s))
           ELSE \A i \in owners : ret.res = Ok(variant_name_str(fields[i]))

\* C2 (round trip): update(value(f)) leaves every field of the record, the
\* skipped ones included, at the value it had before the call.
C2_RoundTrip == [][ret'.op = "round_trip" => self' = self]_vars

C2_Witness ==
    /\ ret.op = "round_trip"
    /\ \E i, j \in DOMAIN fields :
          /\ ~fields[i].skip /\ variant_name_str(fields[i]) = ret.arg
          /\ i # j /\ self[fields[i].ident] # self[fields[j].ident]

\* C3 (order preservation): fields() is the sequence of the variants of the
\* non-skipped fields in declaration order, one entry per such field, and the
\* struct and the generated code it is read from never change.
C3_FieldsOrder ==
    /\ [](ret.op \in {"fields", "trait_fields"} =>
            LET live == {i \in DOMAIN fields : ~fields[i].skip}
                at(k) == CHOOSE i \in live : Cardinality({j \in live : j <= i}) = k
            IN /\ Len(ret.res) = Cardinality(live)
               /\ \A k \in 1..Len(ret.res) : ret.res[k] = variant_name_str(fields[at(k)])
               /\ \A k, l \in 1..Len(ret.res) : k # l => ret.res[k] # ret.res[l])
    /\ [][fields' = fields /\ artifact' = artifact]_vars

C3_Witness ==
    /\ ret.op = "fields"
    /\ Len(ret.res) = 2
    /\ fields[1].rename = None /\ fields[2].rename # None
    /\ ret.res[2] = fields[2].rename[1]

\* C4 (skip exclusion): a skipped field adds no variant to either enum, no
\* element to fields() or as_values(), no from_str key and no member to a
\* conversion group: all of these hold exactly the non-skipped fields.
C4_SkipExclusion ==
    LET live == {i \in DOMAIN fields : ~fields[i].skip}
        liveLabels == {variant_name_str(fields[i]) : i \in live}
        liveKeys == liveLabels \cup {fields[i].ident : i \in live}
        groups == artifact.try_from_impls
        pairs == artifact.try_into_impls
    IN /\ Len(artifact.field_enum) = Cardinality(live)
       /\ Range(artifact.field_enum) = liveLabels
       /\ Len(artifact.value_enum) = Cardinality(live)
       /\ {artifact.value_enum[k].variant : k \in DOMAIN artifact.value_enum} = liveLabels
       /\ Len(artifact.from_str_arms) = Cardinality(live)
       /\ \A k \in DOMAIN artifact.from_str_arms :
             Range(artifact.from_str_arms[k].patterns) \subseteq liveKeys
       /\ \A key \in DOMAIN groups : Range(groups[key]) \subseteq liveLabels
       /\ \A key \in DOMAIN pairs : Range(pairs[key]) \subseteq liveLabels
       /\ \A i \in DOMAIN fields : fields[i].skip =>
             \A key \in DOMAIN groups :
                Cardinality({j \in live : Tokens(fields[j].ty) = key}) = Len(groups[key])
       /\ (ret.op \in {"fields", "as_values"} => Len(ret.res) = Cardinality(live))
       /\ (ret.op = "as_values" => \A k \in DOMAIN ret.res : ret.res[k].variant \in liveLabels)
       /\ (ret.op = "from_str" /\ ret.arg \notin liveKeys => ret.res.tag = "Err")

C4_Witness ==
    /\ ret.op = "from_str"
    /\ ret.res.tag = "Err"
    /\ \E i \in DOMAIN fields : fields[i].skip /\ fields[i].ident = ret.arg
    /\ \E i, j \in DOMAIN fields :
          /\ fields[i].skip /\ ~fields[j].skip
          /\ variant_name_str(fields[i]) = variant_name_str(fields[j])
          /\ fields[i].ty = fields[j].ty

\* C10 (value is total and read-only): every variant of the field enum has
\* exactly one arm in value; value(f) returns the value variant named like f
\* holding the current value of the field f was derived from, and leaves the
\* record as it was.
C10_ValueTotal ==
    /\ [](\A k \in DOMAIN artifact.field_enum :
             Cardinality({a \in DOMAIN artifact.value_arms :
                             artifact.value_arms[a].variant = artifact.field_enum[k]}) = 1)
    /\ [][ret'.op = "value" =>
            /\ self' = self
            /\ LET src == {i \in DOMAIN fields :
                              ~fields[i].skip /\ variant_name_str(fields[i]) = ret'.arg}
               IN /\ Cardinality(src) = 1
                  /\ \A i \in src : ret'.res = ValueVariant(ret'.arg, self[fields[i].ident])]_vars

C10_Witness ==
    /\ ret.op = "value"
    /\ ret.res.payload = 1
    /\ \E i \in DOMAIN fields : fields[i].skip /\ self[fields[i].ident] = 0

\* a type expression names one of the given identifiers in some path segment
RECURSIVE ReferencesGeneric(_, _)
ReferencesGeneric(ty, names) ==
    \/ \E k \in DOMAIN ty.segments : ty.segments[k].ident \in names
    \/ \E k \in DOMAIN ty.segments : \E a \in DOMAIN ty.segments[k].args :
          ReferencesGeneric(ty.segments[k].args[a], names)
    \/ \E q \in DOMAIN ty.qself : ReferencesGeneric(ty.qself[q], names)
    \/ \E e \in DOMAIN ty.elems : ReferencesGeneric(ty.elems[e], names)

\* C5 (conversion round trip): a non-skipped field whose type names no type
\* parameter has both conversions; converting value(f) to the raw type gives
\* Ok of the field's current value, and converting (f, that value) back gives
\* Ok of a value equal to value(f).
C5_ConvRoundTrip ==
    LET G == {p.ident : p \in {q \in generics : q.kind = "type"}}
        plain == {i \in DOMAIN fields : ~fields[i].skip /\ ~ReferencesGeneric(fields[i].ty, G)}
    IN /\ \A i \in plain :
             /\ Tokens(fields[i].ty) \in DOMAIN artifact.try_from_impls
             /\ Tokens(fields[i].ty) \in DOMAIN artifact.try_into_impls
       /\ ret.op = "conv_round_trip" =>
             \A i \in plain : variant_name_str(fields[i]) = ret.arg =>
                /\ Len(ret.res) = 2
                /\ ret.res[1].tag = "Ok" /\ ret.res[1].val = self[fields[i].ident]
                /\ ret.res[2].tag = "Ok"
                /\ ret.res[2].val = ValueVariant(ret.arg, self[fields[i].ident])
                /\ ret.res[2].val = value(artifact, self, ret.arg)

C5_Witness ==
    /\ ret.op = "conv_round_trip"
    /\ generics # {}
    /\ Len(ret.res) = 2 /\ ret.res[2].tag = "Ok" /\ ret.res[2].val.payload = 1
    /\ \E i, j \in DOMAIN fields :
          /\ i < j /\ variant_name_str(fields[j]) = ret.arg
          /\ fields[i].ty = fields[j].ty /\ fields[j].ty = TyU32
          /\ self[fields[i].ident] = 0

\* C6 (value -> raw is keyed by type): converting a value variant tagged by
\* field f into a type that has the conversion gives Ok of the payload exactly
\* when f's declared type has that type's token string, whichever field of
\* the group f is; otherwise it gives Err of the very value passed in.
C6_ValueToRaw ==
    ret.op = "try_from_value" =>
        LET key == ret.arg[1]
            v == ret.arg[2]
        IN \A i \in DOMAIN fields :
              (~fields[i].skip /\ variant_name_str(fields[i]) = v.variant) =>
                  IF Tokens(fields[i].ty) = key
                  THEN ret.res.tag = "Ok" /\ ret.res.val = v.payload
                  ELSE ret.res.tag = "Err" /\ ret.res.val = v

C6_Witness ==
    /\ ret.op = "try_from_value"
    /\ ret.res.tag = "Ok"
    /\ \E i, j \in DOMAIN fields :
          /\ i < j /\ fields[i].ty = fields[j].ty
          /\ variant_name_str(fields[j]) = ret.arg[2].variant

\* C7 ((field, raw) -> value): converting (f, x) for a type that has the
\* conversion gives Ok of the value variant tagged f holding x exactly when f
\* is a field of that type's group; otherwise it gives Err of the field f.
C7_TupleToValue ==
    ret.op = "try_from_tuple" =>
        LET key == ret.arg[1]
            f == ret.arg[2]
            raw == ret.arg[3]
        IN \A i \in DOMAIN fields :
              (~fields[i].skip /\ variant_name_str(fields[i]) = f) =>
                  IF Tokens(fields[i].ty) = key
                  THEN ret.res.tag = "Ok" /\ ret.res.val = ValueVariant(f, raw)
                  ELSE ret.res.tag = "Err" /\ ret.res.val = f

C7_Witness ==
    /\ ret.op = "try_from_tuple"
    /\ ret.res.tag = "Ok"
    /\ ret.arg[3] = 1
    /\ \E i, j \in DOMAIN fields :
          /\ i < j /\ fields[i].ty = fields[j].ty
          /\ variant_name_str(fields[j]) = ret.arg[2]

\* C8 (generic exclusion): a group of non-skipped fields gets the pair of
\* conversions exactly when its type names no type parameter of the struct in
\* any path segment, nested arguments included; the fields of the other
\* groups still get their variants and their value / update arms.
C8_GenericExclusion ==
    LET G == {p.ident : p \in {q \in generics : q.kind = "type"}}
    IN \A i \in DOMAIN fields : ~fields[i].skip =>
          /\ Tokens(fields[i].ty) \in DOMAIN artifact.try_from_impls
                <=> ~ReferencesGeneric(fields[i].ty, G)
          /\ Tokens(fields[i].ty) \in DOMAIN artifact.try_into_impls
                <=> ~ReferencesGeneric(fields[i].ty, G)
          /\ variant_name_str(fields[i]) \in Range(artifact.field_enum)
          /\ \E k \in DOMAIN artifact.value_arms :
                artifact.value_arms[k] = [variant |-> variant_name_str(fields[i]), ident |-> fields[i].ident]
          /\ \E k \in DOMAIN artifact.update_arms :
                artifact.update_arms[k] = [variant |-> variant_name_str(fields[i]), ident |-> fields[i].ident]

\* C9 (capability binding): the EnumCompanionTrait impl is emitted exactly
\* when value_fn, update_fn and fields_fn all have their default names; the
\* enums, from_str, the accessors' arms and the conversions are the ones
\* generated under the default names either way.
C9_TraitBinding ==
    LET d == enum_companion_derive(fields, generics, DefaultOpts)
    IN /\ artifact.trait_impl <=>
             (opts.value_fn = "value" /\ opts.update_fn = "update" /\ opts.fields_fn = "fields")
       /\ ret.op \in {"trait_value", "trait_update", "trait_fields", "trait_as_values"} =>
             opts = DefaultOpts
       /\ artifact.value_fn_name = opts.value_fn
       /\ artifact.update_fn_name = opts.update_fn
       /\ artifact.fields_fn_name = opts.fields_fn
       /\ \A c \in {"field_enum", "FIELDS", "value_enum", "from_str_arms", "value_arms",
                    "update_arms", "try_from_impls", "try_into_impls"} : artifact[c] = d[c]

C9_Witness ==
    /\ ~artifact.trait_impl
    /\ opts.value_fn = "value" /\ opts.update_fn = "update" /\ opts.fields_fn # "fields"
    /\ ret.op = "fields" /\ Len(ret.res) = 2

\* C11 (label derivation): the variant of a non-skipped field is named by the
\* rename string as written when there is one; otherwise by the characters of
\* the identifier other than underscores, in order, a character upper-cased
\* exactly when it starts the identifier or follows an underscore.
C11_LabelDerivation ==
    LET live == {i \in DOMAIN fields : ~fields[i].skip}
        at(k) == CHOOSE i \in live : Cardinality({j \in live : j <= i}) = k
        up(c) == IF c = "a" THEN "A" ELSE IF c = "b" THEN "B" ELSE IF c = "c" THEN "C" ELSE c
        label(id) ==
            LET keep == {p \in DOMAIN id : id[p] # "_"}
                pos(n) == CHOOSE p \in keep : Cardinality({q \in keep : q <= p}) = n
            IN [n \in 1..Cardinality(keep) |->
                   IF pos(n) = 1 \/ id[pos(n) - 1] = "_" THEN up(id[pos(n)]) ELSE id[pos(n)]]
    IN /\ Len(artifact.field_enum) = Cardinality(live)
       /\ \A k \in 1..Cardinality(live) :
             /\ artifact.field_enum[k] =
                   IF fields[at(k)].rename # None THEN fields[at(k)].rename[1]
                   ELSE label(fields[at(k)].ident)
             /\ artifact.value_enum[k].variant = artifact.field_enum[k]
       /\ (ret.op = "value" => ret.res.variant \in Range(artifact.field_enum))

C11_Witness ==
    /\ fields[1].ident = <<"_", "a", "B">>
    /\ fields[1].rename = None
    /\ Len(fields) = 2
    /\ ret.op = "value" /\ ret.res.variant = <<"A", "B">>

\* C12 (update frame effect): after update(v), v tagged by field f with
\* payload x, the field f holds x and every other field, skipped or not, holds
\* what it held before; no other call changes a field, so a field always
\* holds the payload of the latest update naming it.
C12_UpdateFrame ==
    [][/\ ret'.op \in {"update", "trait_update"} =>
            \A i \in DOMAIN fields :
               self'[fields[i].ident] =
                  IF ~fields[i].skip /\ variant_name_str(fields[i]) = ret'.arg.variant
                  THEN ret'.arg.payload
                  ELSE self[fields[i].ident]
       /\ ret'.op \notin {"update", "trait_update"} => self' = self
       /\ DOMAIN self' = DOMAIN self]_vars

C12_Witness ==
    /\ ret.op = "update"
    /\ ret.arg.payload = 1
    /\ \E i, j \in DOMAIN fields :
          /\ i < j /\ ~fields[i].skip
          /\ variant_name_str(fields[i]) = ret.arg.variant
          /\ self[fields[i].ident] = 1 /\ self[fields[j].ident] = 0

\* C13 (as_values): as_values() returns one element per non-skipped field, in
\* declaration order, the k-th being value(fields()[k]), the variant of that
\* field holding its current value, and leaves the record as it was.
C13_AsValues ==
    [][ret'.op \in {"as_values", "trait_as_values"} =>
          LET live == {i \in DOMAIN fields : ~fields[i].skip}
              at(k) == CHOOSE i \in live : Cardinality({j \in live : j <= i}) = k
          IN /\ self' = self
             /\ Len(ret'.res) = Cardinality(live)
             /\ \A k \in 1..Cardinality(live) :
                   /\ ret'.res[k] = ValueVariant(variant_name_str(fields[at(k)]),
                                                 self[fields[at(k)].ident])
                   /\ ret'.res[k] = value(artifact, self, fields_fn(artifact)[k])]_vars

C13_Witness ==
    /\ ret.op = "as_values"
    /\ Len(ret.res) = 2
    /\ ret.res[1].payload = 0 /\ ret.res[2].payload = 1
    /\ fields[1].rename # None

====
